---- MODULE Spec2Model ----
(***************************************************************************)
(* Model of biosppy/quality.py: the dispatchers quality_ecg and            *)
(* quality_eda and the local quality algorithms ecg_sqi_level3,            *)
(* eda_sqi_bottcher, cSQI and hosSQI.                                      *)
(*                                                                         *)
(* One call is one behaviour: Init is the moment the caller has bound the  *)
(* arguments, every action is one stretch of straight-line code between    *)
(* two calls to a collaborator (biosppy.signals.ecg, scipy.stats), and     *)
(* pc = "done" is the call having returned or raised.                      *)
(*                                                                         *)
(* Numbers.  A Python float is a record [kind, num, den]: a reduced        *)
(* fraction ("fin"), +infinity ("inf"), NaN ("nan"), the square root of a  *)
(* fraction ("sqrt"), or the opaque scalar of a collaborator (kind is the  *)
(* collaborator's name; num = den = 0).  Arithmetic is exact: the rounding *)
(* of binary64 is not modelled.  ECG samples are raw ADC integers; EDA     *)
(* samples are integers in units of 0.01.                                  *)
(* The verbose parameter only selects console output and is left out.      *)
(***************************************************************************)
EXTENDS Integers, Sequences, FiniteSets, TLC

VARIABLES
    entry,          \* the function the caller invoked
    pc,             \* position of control inside the call
    segment,        \* argument segment (x in the EDA functions): None or Some(sequence)
    sampling_rate,  \* argument sampling_rate: None or Some(positive integer)
    methods,        \* argument methods: sequence of method names
    bit,            \* argument bit
    threshold,      \* argument threshold (a float)
    idx,            \* 1-based position of the for loop over methods
    args,           \* local args of the dispatcher
    names,          \* local names of the dispatcher
    rpeak1,         \* local rpeak1 of the ecg_sqi_level3 frame
    corr,           \* np.mean(corr_points) of the ecg_sqi_level3 frame
    calls,          \* log of the calls made so far: <<caller, callee>> pairs
    outcome         \* how the call ended: [kind, val, err]

vars == <<entry, pc, segment, sampling_rate, methods, bit, threshold, idx,
          args, names, rpeak1, corr, calls, outcome>>

-----------------------------------------------------------------------------
(* Bounds of the model *)

MaxMethods == 3
MaxPeaks == 3
MaxEdaLen == 4

-----------------------------------------------------------------------------
(* Python values *)

None == <<>>
Some(v) == <<v>>
IsNone(o) == o = <<>>
Val(o) == o[1]

Abs(n) == IF n < 0 THEN -n ELSE n

RECURSIVE GCD(_, _)
GCD(a, b) == IF b = 0 THEN a ELSE GCD(b, a % b)

\* the float n/d, d # 0, as a reduced fraction with a positive denominator
Fin(n, d) ==
    LET g == GCD(Abs(n), Abs(d))
        s == IF d < 0 THEN -1 ELSE 1
    IN  [kind |-> "fin", num |-> (s * n) \div g, den |-> (s * d) \div g]

NaN == [kind |-> "nan", num |-> 0, den |-> 0]
Inf == [kind |-> "inf", num |-> 1, den |-> 0]
Ext(name) == [kind |-> name, num |-> 0, den |-> 0]

\* a < b and a <= b on floats: every comparison with NaN is False
NumLt(a, b) ==
    CASE a.kind = "nan" \/ b.kind = "nan" -> FALSE
      [] a.kind = "inf" -> FALSE
      [] b.kind = "inf" -> TRUE
      [] OTHER -> a.num * b.den < b.num * a.den

NumLeq(a, b) ==
    CASE a.kind = "nan" \/ b.kind = "nan" -> FALSE
      [] b.kind = "inf" -> TRUE
      [] a.kind = "inf" -> FALSE
      [] OTHER -> a.num * b.den <= b.num * a.den

Range(s) == {s[i] : i \in 1..Len(s)}

\* builtin max / min over a non-empty sequence of integers
IntMax(s) == CHOOSE m \in Range(s) : \A v \in Range(s) : v <= m
IntMin(s) == CHOOSE m \in Range(s) : \A v \in Range(s) : m <= v

\* builtin max / min over a non-empty sequence of floats: keep the first
\* item, replace it by each later item that compares greater (smaller)
RECURSIVE PyMax(_)
PyMax(s) ==
    IF Len(s) = 1 THEN s[1]
    ELSE LET m == PyMax(SubSeq(s, 1, Len(s) - 1))
         IN  IF NumLt(m, s[Len(s)]) THEN s[Len(s)] ELSE m

RECURSIVE PyMin(_)
PyMin(s) ==
    IF Len(s) = 1 THEN s[1]
    ELSE LET m == PyMin(SubSeq(s, 1, Len(s) - 1))
         IN  IF NumLt(s[Len(s)], m) THEN s[Len(s)] ELSE m

\* np.diff
Diff(s) == [i \in 1..(Len(s) - 1) |-> s[i + 1] - s[i]]

RECURSIVE Pow2(_)
Pow2(n) == IF n = 0 THEN 1 ELSE 2 * Pow2(n - 1)

RECURSIVE SeqSum(_)
SeqSum(s) == IF Len(s) = 0 THEN 0 ELSE s[Len(s)] + SeqSum(SubSeq(s, 1, Len(s) - 1))

-----------------------------------------------------------------------------
(* How a call ends *)

NoOutcome == [kind |-> "none", val |-> NaN, err |-> ""]
Returned(v) == [kind |-> "return", val |-> v, err |-> ""]
Raised(e) == [kind |-> "raise", val |-> NaN, err |-> e]

\* the raise sites of quality.py
ErrEdaSignal == "TypeError: Please specify the input signal."
ErrEdaRate == "TypeError: Please specify the sampling rate."
ErrEdaLength == "AssertionError: Segment must be 5s long"
ErrMethod == "AssertionError: Method should be one of the following"
ErrRate == "IOError: Sampling frequency is required"
ErrLength == "IOError: Segment must be 5s long"
ErrHosSignal == "TypeError: Please specify the ECG signal."
\* raised by the interpreter or by numpy on the operands the code hands them
ErrNoneOperand == "TypeError: NoneType operand"
ErrEmptyMax == "ValueError: max() arg is an empty sequence"
ErrReshape == "ValueError: cannot reshape array"
\* raised inside a collaborator that was handed None
ErrCollaborator == "collaborator raised"

Call(caller, callee) == <<caller, callee>>

-----------------------------------------------------------------------------
(* Collaborators: biosppy.signals.ecg and numpy, known by their contracts *)

\* sample indices a peak detector may report in a segment of length n
PeakGrid == {0, 3, 18, 20, 36}

\* ordered sequences of at most n sample indices drawn from S
OrderedSeqs(S, n) ==
    {s \in UNION {[1..k -> S] : k \in 0..n} :
        \A i \in 1..(Len(s) - 1) : s[i] <= s[i + 1]}

PeakSeqs(seg) ==
    OrderedSeqs(IF IsNone(seg) THEN {} ELSE {p \in PeakGrid : p < Len(Val(seg))},
                MaxPeaks)

\* ecg.hamilton_segmenter(segment, sampling_rate)['rpeaks']
hamilton_segmenter(seg, sr) == PeakSeqs(seg)

\* ecg.correct_rpeaks(signal, rpeaks, sampling_rate, tol)['rpeaks']
correct_rpeaks(seg, rpeaks, sr) == {s \in PeakSeqs(seg) : Len(s) <= Len(rpeaks)}

\* np.mean(np.corrcoef(ecg.extract_heartbeats(...)[0]))
CorrMeans == {NaN, Fin(50, 100), Fin(90, 100), Fin(95, 100)}

-----------------------------------------------------------------------------
(* The end of one iteration of the dispatchers' for loop *)

\* Collect keeping one entry per distinct name, as a mapping would
CollectNoDuplicates(q) ==
    /\ args' = IF methods[idx] \in Range(names) THEN args ELSE Append(args, q)
    /\ names' = IF methods[idx] \in Range(names) THEN names ELSE Append(names, methods[idx])
    /\ idx' = idx + 1
    /\ pc' = "loop"

\* args += (quality,); names += (method,); and on to the next method
Collect(q) ==
    /\ args' = Append(args, q)
    /\ names' = Append(names, methods[idx])
    /\ idx' = idx + 1
    /\ pc' = "loop"

\* utils.ReturnTuple(args, names): an ordered pairing of values and names
ReturnTuple(values, keys) == [values |-> values, names |-> keys]

-----------------------------------------------------------------------------
(* ecg_sqi_level3 *)

LQ == Fin(0, 1)
MQ == Fin(1, 2)
HQ == Fin(1, 1)

HRMax == 200
HRMin == 40
MinSeconds == 5
SecondsPerMinute == 60

\* (max(segment) - min(segment)) >= (2**bit - 1), segment non-empty
Saturated(seg, b) == IntMax(seg) - IntMin(seg) >= Pow2(b) - 1

\* sampling_rate * (60 / np.diff(rpeak1)): one float per RR interval;
\* numpy divides by a zero interval to +inf
InstantHR(sr, peaks) ==
    LET rr == Diff(peaks)
    IN  [i \in 1..Len(rr) |->
            IF rr[i] = 0 THEN Inf ELSE Fin(sr * SecondsPerMinute, rr[i])]

\* RatePlausible with the bounds excluded: max(hr) < 200 and min(hr) > 40
RatePlausibleStrict(hr) ==
    /\ NumLt(PyMax(hr), Fin(HRMax, 1))
    /\ NumLt(Fin(HRMin, 1), PyMin(hr))

\* max(hr) <= 200 and min(hr) >= 40
RatePlausible(hr) ==
    /\ NumLeq(PyMax(hr), Fin(HRMax, 1))
    /\ NumLeq(Fin(HRMin, 1), PyMin(hr))

\* TooShort with the 2 seconds of the EDA window for the 5 seconds
TooShortTwoSeconds(seg, sr) == Len(seg) < sr * 2

\* len(segment) < sampling_rate * 5
TooShort(seg, sr) == Len(seg) < sr * MinSeconds

\* a return of ecg_sqi_level3 with locals peaks and c: to the caller, where
\* the call ends, or back into quality_ecg's loop, where the frame is gone
Level3Return(q, peaks, c) ==
    IF entry = "ecg_sqi_level3"
    THEN /\ outcome' = Returned(q)
         /\ pc' = "done"
         /\ rpeak1' = peaks
         /\ corr' = c
         /\ UNCHANGED <<args, names, idx>>
    ELSE /\ Collect(q)
         /\ rpeak1' = <<>>
         /\ corr' = NaN
         /\ UNCHANGED outcome

\* an exception leaves every frame: no function of the module catches any
Raise(e) ==
    /\ outcome' = Raised(e)
    /\ pc' = "done"

\* Level3Guard with the presence and length tests moved before the
\* saturation test
Level3GuardLengthFirst(seg, sr, b) ==
    IF IsNone(sr) THEN ErrRate
    ELSE IF IsNone(seg) THEN ErrNoneOperand
    ELSE IF TooShort(Val(seg), Val(sr)) THEN ErrLength
    ELSE IF b # 0 /\ Len(Val(seg)) = 0 THEN ErrEmptyMax
    ELSE IF b # 0 /\ Saturated(Val(seg), b) THEN "LQ"
    ELSE "go on"

\* what lines 156-162 decide: "LQ", an error, or "go on"
Level3Guard(seg, sr, b) ==
    IF b # 0 /\ IsNone(seg) THEN ErrNoneOperand
    ELSE IF b # 0 /\ Len(Val(seg)) = 0 THEN ErrEmptyMax
    ELSE IF b # 0 /\ Saturated(Val(seg), b) THEN "LQ"
    ELSE IF IsNone(sr) THEN ErrRate
    ELSE IF IsNone(seg) THEN ErrNoneOperand
    ELSE IF TooShort(Val(seg), Val(sr)) THEN ErrLength
    ELSE "go on"

\* lines 156-162: the saturation test, then the presence and length tests
ecg_sqi_level3_check ==
    /\ pc = "l3_check"
    /\ LET g == Level3Guard(segment, sampling_rate, bit)
       IN  CASE g = "LQ" -> Level3Return(LQ, rpeak1, corr)
             [] g = "go on" ->
                  pc' = "l3_detect" /\ UNCHANGED <<outcome, args, names, idx, rpeak1, corr>>
             [] OTHER -> Raise(g) /\ UNCHANGED <<args, names, idx, rpeak1, corr>>
    /\ UNCHANGED <<entry, segment, sampling_rate, methods, bit, threshold, calls>>

\* line 165: the peak detector
ecg_sqi_level3_detect ==
    /\ pc = "l3_detect"
    /\ calls' = Append(calls, Call("ecg_sqi_level3", "hamilton_segmenter"))
    /\ \E r \in hamilton_segmenter(segment, sampling_rate) : rpeak1' = r
    /\ pc' = "l3_correct"
    /\ UNCHANGED <<entry, segment, sampling_rate, methods, bit, threshold, idx,
                   args, names, corr, outcome>>

\* Level3Rate without the heart-rate test
Level3RateSkipsRate(sr, peaks) == IF Len(peaks) < 2 THEN "LQ" ELSE "MQ"

\* what lines 167-172 decide once the corrected peaks are known
Level3Rate(sr, peaks) ==
    IF Len(peaks) < 2 THEN "LQ"
    ELSE IF RatePlausible(InstantHR(sr, peaks)) THEN "MQ" ELSE "LQ"

\* lines 166-172: the peak corrector, the peak count and the heart rates
ecg_sqi_level3_correct ==
    /\ pc = "l3_correct"
    /\ calls' = Append(calls, Call("ecg_sqi_level3", "correct_rpeaks"))
    /\ \E r \in correct_rpeaks(segment, rpeak1, sampling_rate) :
        IF Level3Rate(Val(sampling_rate), r) = "MQ"
        THEN /\ rpeak1' = r
             /\ pc' = "l3_extract"
             /\ UNCHANGED <<outcome, args, names, idx, corr>>
        ELSE Level3Return(LQ, r, corr)
    /\ UNCHANGED <<entry, segment, sampling_rate, methods, bit, threshold>>

\* line 175-176: quality after the correlation test
Level3Template(c, thr) == IF NumLt(thr, c) THEN HQ ELSE MQ

\* lines 173-178: the template extractor and the correlation test
ecg_sqi_level3_extract ==
    /\ pc = "l3_extract"
    /\ calls' = Append(calls, Call("ecg_sqi_level3", "extract_heartbeats"))
    /\ \E c \in CorrMeans :
        Level3Return(Level3Template(c, threshold), rpeak1, c)
    /\ UNCHANGED <<entry, segment, sampling_rate, methods, bit, threshold>>

-----------------------------------------------------------------------------
(* eda_sqi_bottcher *)

WindowSeconds == 2

\* the float an EDA sample stands for
SampleValue(v) == Fin(v, 100)

\* x.reshape(-1, w): the rows of the reshaped array, Len(x) a multiple of w
Windows(x, w) == [k \in 1..(Len(x) \div w) |-> SubSeq(x, (k - 1) * w + 1, k * w)]

\* np.abs((max_ - min_) / max_) of one row; numpy divides 0 by 0 to NaN and
\* a positive number by 0 to +inf
rac(win) ==
    LET max_ == IntMax(win)
        min_ == IntMin(win)
    IN  IF max_ = 0 THEN (IF min_ = 0 THEN NaN ELSE Inf)
        ELSE Fin(Abs(max_ - min_), Abs(max_))

\* np.mean of one row
RowMean(win) == Fin(SeqSum(win), 100 * Len(win))

\* WindowScore with the mean test not strict: mean >= 0.05
WindowScoreMeanNotStrict(win) ==
    IF NumLt(rac(win), Fin(1, 5)) /\ NumLeq(Fin(5, 100), RowMean(win)) THEN 1 ELSE 0

\* ((rac < 0.2) & (mean > 0.05)).astype(int) of one row
WindowScore(win) ==
    IF NumLt(rac(win), Fin(1, 5)) /\ NumLt(Fin(5, 100), RowMean(win)) THEN 1 ELSE 0

\* np.mean(quality_score); the mean of an empty array is NaN
ScoreMean(scores) ==
    IF Len(scores) = 0 THEN NaN ELSE Fin(SeqSum(scores), Len(scores))

\* lines 203-222: what eda_sqi_bottcher(x, sampling_rate) raises or returns
Bottcher(x, sr) ==
    IF IsNone(x) THEN [err |-> ErrEdaSignal, val |-> NaN]
    ELSE IF IsNone(sr) THEN [err |-> ErrEdaRate, val |-> NaN]
    ELSE LET w == Val(sr) * WindowSeconds
         IN  IF Len(Val(x)) % w # 0 THEN [err |-> ErrReshape, val |-> NaN]
             ELSE LET segments_2s == Windows(Val(x), w)
                      quality_score ==
                          [k \in 1..Len(segments_2s) |-> WindowScore(segments_2s[k])]
                  IN  [err |-> "", val |-> ScoreMean(quality_score)]

\* a return of eda_sqi_bottcher: to the caller, or back into quality_eda's loop
BottcherReturn(q) ==
    IF entry = "eda_sqi_bottcher"
    THEN /\ outcome' = Returned(q)
         /\ pc' = "done"
         /\ UNCHANGED <<args, names, idx>>
    ELSE /\ Collect(q)
         /\ UNCHANGED outcome

\* lines 203-222, the whole function: it calls only numpy
eda_sqi_bottcher_run ==
    /\ pc = "eda_run"
    /\ LET r == Bottcher(segment, sampling_rate)
       IN  IF r.err = "" THEN BottcherReturn(r.val)
           ELSE Raise(r.err) /\ UNCHANGED <<args, names, idx>>
    /\ UNCHANGED <<entry, segment, sampling_rate, methods, bit, threshold,
                   rpeak1, corr, calls>>

-----------------------------------------------------------------------------
(* cSQI and hosSQI *)

\* the float sqrt(f) of a fraction f >= 0
Sqrt(f) == [kind |-> "sqrt", num |-> f.num, den |-> f.den]

\* lines 244-266: np.std(rr) / np.mean(rr) of rr = np.diff(rpeaks), the
\* square root of (m * sum(rr^2) - sum(rr)^2) / sum(rr)^2 for m intervals;
\* no interval, or a zero mean, divides 0 by 0
cSQI(rpeaks) ==
    LET rr_intervals == Diff(rpeaks)
        m == Len(rr_intervals)
        s1 == SeqSum(rr_intervals)
        s2 == SeqSum([i \in 1..m |-> rr_intervals[i] * rr_intervals[i]])
    IN  IF m = 0 THEN NaN
        ELSE IF s1 = 0 THEN (IF m * s2 - s1 * s1 = 0 THEN NaN ELSE Inf)
        ELSE Sqrt(Fin(m * s2 - s1 * s1, s1 * s1))

\* lines 293-316: abs(skew) * kurtosis / 5 over scipy.stats, or the TypeError
hosSQI(signal) ==
    IF IsNone(signal) THEN [err |-> ErrHosSignal, val |-> NaN]
    ELSE [err |-> "", val |-> Ext("hosSQI")]

\* ecg.pSQI, ecg.kSQI, ecg.fSQI: a scalar; handed None they may raise
ExternalIndex(name, inputsPresent) ==
    {[err |-> "", val |-> Ext(name)]}
        \cup (IF inputsPresent THEN {} ELSE {[err |-> ErrCollaborator, val |-> NaN]})

-----------------------------------------------------------------------------
(* quality_ecg *)

available_methods_ecg == {"Level3", "pSQI", "kSQI", "fSQI", "cSQI", "hosSQI"}

\* the for loop of quality_ecg is at a method to dispatch
AtEcgMethod ==
    /\ entry = "quality_ecg"
    /\ pc = "loop"
    /\ idx <= Len(methods)

DispatcherFrame ==
    <<entry, segment, sampling_rate, methods, bit, threshold, rpeak1, corr>>

\* the outcome r of a callee: its value is collected, its exception leaves
Continue(r) ==
    IF r.err = "" THEN Collect(r.val) /\ UNCHANGED outcome
    ELSE Raise(r.err) /\ UNCHANGED <<args, names, idx>>

\* quality_ecg_reject letting an unknown name pass: the name is skipped
quality_ecg_reject_skips ==
    /\ AtEcgMethod
    /\ methods[idx] \notin available_methods_ecg
    /\ idx' = idx + 1
    /\ UNCHANGED <<pc, args, names, outcome, calls>>
    /\ UNCHANGED DispatcherFrame

\* line 104: the assert on the method name fails
quality_ecg_reject ==
    /\ AtEcgMethod
    /\ methods[idx] \notin available_methods_ecg
    /\ Raise(ErrMethod)
    /\ UNCHANGED <<args, names, idx, calls>>
    /\ UNCHANGED DispatcherFrame

\* lines 106-108: ecg_sqi_level3 is called
quality_ecg_Level3 ==
    /\ AtEcgMethod
    /\ methods[idx] = "Level3"
    /\ calls' = Append(calls, Call("quality_ecg", "ecg_sqi_level3"))
    /\ pc' = "l3_check"
    /\ UNCHANGED <<args, names, idx, outcome>>
    /\ UNCHANGED DispatcherFrame

\* lines 110-111, 126-127: ecg.pSQI(segment, f_thr)
quality_ecg_pSQI ==
    /\ AtEcgMethod
    /\ methods[idx] = "pSQI"
    /\ calls' = Append(calls, Call("quality_ecg", "pSQI"))
    /\ \E r \in ExternalIndex("pSQI", ~IsNone(segment)) : Continue(r)
    /\ UNCHANGED DispatcherFrame

\* lines 113-114, 126-127: ecg.kSQI(segment, fisher)
quality_ecg_kSQI ==
    /\ AtEcgMethod
    /\ methods[idx] = "kSQI"
    /\ calls' = Append(calls, Call("quality_ecg", "kSQI"))
    /\ \E r \in ExternalIndex("kSQI", ~IsNone(segment)) : Continue(r)
    /\ UNCHANGED DispatcherFrame

\* lines 116-117, 126-127: ecg.fSQI(segment, fs=sampling_rate, ...)
quality_ecg_fSQI ==
    /\ AtEcgMethod
    /\ methods[idx] = "fSQI"
    /\ calls' = Append(calls, Call("quality_ecg", "fSQI"))
    /\ \E r \in ExternalIndex("fSQI", ~IsNone(segment) /\ ~IsNone(sampling_rate)) :
         Continue(r)
    /\ UNCHANGED DispatcherFrame

\* lines 119-121, 126-127: the peak detector, then cSQI on its peaks; a
\* detector handed None may raise before cSQI is called
quality_ecg_cSQI ==
    /\ AtEcgMethod
    /\ methods[idx] = "cSQI"
    /\ \/ /\ IsNone(segment) \/ IsNone(sampling_rate)
          /\ calls' = Append(calls, Call("quality_ecg", "hamilton_segmenter"))
          /\ Raise(ErrCollaborator)
          /\ UNCHANGED <<args, names, idx>>
       \/ /\ calls' = calls \o <<Call("quality_ecg", "hamilton_segmenter"),
                                 Call("quality_ecg", "cSQI")>>
          /\ \E rpeaks \in hamilton_segmenter(segment, sampling_rate) :
               Collect(cSQI(rpeaks))
          /\ UNCHANGED outcome
    /\ UNCHANGED DispatcherFrame

\* lines 123-124, 126-127: hosSQI(segment, verbose)
quality_ecg_hosSQI ==
    /\ AtEcgMethod
    /\ methods[idx] = "hosSQI"
    /\ calls' = Append(calls, Call("quality_ecg", "hosSQI"))
    /\ Continue(hosSQI(segment))
    /\ UNCHANGED DispatcherFrame

\* line 129: the loop is over
quality_ecg_return ==
    /\ entry = "quality_ecg"
    /\ pc = "loop"
    /\ idx > Len(methods)
    /\ outcome' = Returned(ReturnTuple(args, names))
    /\ pc' = "done"
    /\ UNCHANGED <<args, names, idx, calls>>
    /\ UNCHANGED DispatcherFrame

-----------------------------------------------------------------------------
(* quality_eda *)

available_methods_eda == {"bottcher"}

EdaMinSeconds == 2

\* what lines 46-52 decide: an error, or "" to go on
EdaGuard(x, sr) ==
    IF IsNone(x) THEN ErrEdaSignal
    ELSE IF IsNone(sr) THEN ErrEdaRate
    ELSE IF ~(Len(Val(x)) > Val(sr) * EdaMinSeconds) THEN ErrEdaLength
    ELSE ""

\* lines 46-55: the presence tests and the length assert
quality_eda_check ==
    /\ entry = "quality_eda"
    /\ pc = "eda_check"
    /\ IF EdaGuard(segment, sampling_rate) = ""
       THEN pc' = "loop" /\ UNCHANGED outcome
       ELSE Raise(EdaGuard(segment, sampling_rate))
    /\ UNCHANGED <<args, names, idx, calls>>
    /\ UNCHANGED DispatcherFrame

AtEdaMethod ==
    /\ entry = "quality_eda"
    /\ pc = "loop"
    /\ idx <= Len(methods)

\* line 59: the assert on the method name fails
quality_eda_reject ==
    /\ AtEdaMethod
    /\ methods[idx] \notin available_methods_eda
    /\ Raise(ErrMethod)
    /\ UNCHANGED <<args, names, idx, calls>>
    /\ UNCHANGED DispatcherFrame

\* lines 61-62: eda_sqi_bottcher is called
quality_eda_bottcher ==
    /\ AtEdaMethod
    /\ methods[idx] = "bottcher"
    /\ calls' = Append(calls, Call("quality_eda", "eda_sqi_bottcher"))
    /\ pc' = "eda_run"
    /\ UNCHANGED <<args, names, idx, outcome>>
    /\ UNCHANGED DispatcherFrame

\* line 67: the loop is over
quality_eda_return ==
    /\ entry = "quality_eda"
    /\ pc = "loop"
    /\ idx > Len(methods)
    /\ outcome' = Returned(ReturnTuple(args, names))
    /\ pc' = "done"
    /\ UNCHANGED <<args, names, idx, calls>>
    /\ UNCHANGED DispatcherFrame

-----------------------------------------------------------------------------
(* Inputs *)

SamplingRates == {2, 10}
Bits == {0, 1, 2}
Thresholds == {Fin(50, 100), Fin(90, 100)}

\* n samples, all 0 but the last, which is r
SegOf(n, r) == [k \in 1..n |-> IF k = n THEN r ELSE 0]

Level3Lengths ==
    {0} \cup {sr * MinSeconds - 1 : sr \in SamplingRates}
        \cup {sr * MinSeconds : sr \in SamplingRates}

Level3Segments == {SegOf(n, r) : n \in Level3Lengths, r \in {0, 2, 3}}

NoLocals ==
    /\ idx = 0
    /\ args = <<>>
    /\ names = <<>>
    /\ rpeak1 = <<>>
    /\ corr = NaN
    /\ calls = <<>>
    /\ outcome = NoOutcome

\* a direct call ecg_sqi_level3(segment, sampling_rate, threshold, bit)
InitLevel3 ==
    /\ entry = "ecg_sqi_level3"
    /\ pc = "l3_check"
    /\ segment \in {None} \cup {Some(s) : s \in Level3Segments}
    /\ sampling_rate \in {None} \cup {Some(sr) : sr \in SamplingRates}
    /\ methods = <<>>
    /\ bit \in Bits
    /\ threshold \in Thresholds
    /\ NoLocals

NextLevel3 ==
    \/ ecg_sqi_level3_check
    \/ ecg_sqi_level3_detect
    \/ ecg_sqi_level3_correct
    \/ ecg_sqi_level3_extract

SpecLevel3 == InitLevel3 /\ [][NextLevel3]_vars

EdaSamples == {-6, 0, 5, 6, 8, 10}
EdaRates == {1, 2}

SeqsUpTo(S, n) == UNION {[1..k -> S] : k \in 0..n}

\* a direct call eda_sqi_bottcher(x, sampling_rate)
InitBottcher ==
    /\ entry = "eda_sqi_bottcher"
    /\ pc = "eda_run"
    /\ segment \in {None} \cup {Some(x) : x \in SeqsUpTo(EdaSamples, MaxEdaLen)}
    /\ sampling_rate \in {None} \cup {Some(sr) : sr \in EdaRates}
    /\ methods = <<>>
    /\ bit = 0
    /\ threshold = Fin(90, 100)
    /\ NoLocals

NextBottcher == eda_sqi_bottcher_run

SpecBottcher == InitBottcher /\ [][NextBottcher]_vars

UnknownMethod == "notamethod"
EcgMethodNames == available_methods_ecg \cup {UnknownMethod}
EdaMethodNames == available_methods_eda \cup {UnknownMethod}

DispatchRates == {2}
DispatchBits == {0, 2}

\* ECG segments around the 5-second length, flat or spanning 3 ADC levels
DispatchSegments ==
    {SegOf(n, r) : n \in {sr * MinSeconds - 1 : sr \in DispatchRates}
                            \cup {sr * MinSeconds : sr \in DispatchRates},
                   r \in {0, 3}}

DispatchEdaSamples == {0, 6}

DispatcherLocals ==
    /\ idx = 1
    /\ args = <<>>
    /\ names = <<>>
    /\ rpeak1 = <<>>
    /\ corr = NaN
    /\ calls = <<>>
    /\ outcome = NoOutcome

\* a call quality_ecg(segment, methods, sampling_rate, threshold=0.9, bit)
InitEcg ==
    /\ entry = "quality_ecg"
    /\ pc = "loop"
    /\ segment \in {None} \cup {Some(s) : s \in DispatchSegments}
    /\ sampling_rate \in {None} \cup {Some(sr) : sr \in DispatchRates}
    /\ methods \in SeqsUpTo(EcgMethodNames, MaxMethods)
    /\ bit \in DispatchBits
    /\ threshold = Fin(90, 100)
    /\ DispatcherLocals

\* a call quality_eda(x, methods, sampling_rate)
InitEda ==
    /\ entry = "quality_eda"
    /\ pc = "eda_check"
    /\ segment \in {None} \cup {Some(x) : x \in SeqsUpTo(DispatchEdaSamples, MaxEdaLen)}
    /\ sampling_rate \in {None} \cup {Some(sr) : sr \in EdaRates}
    /\ methods \in SeqsUpTo(EdaMethodNames, MaxMethods)
    /\ bit = 0
    /\ threshold = Fin(90, 100)
    /\ DispatcherLocals

Init == InitEcg \/ InitEda

Next ==
    \/ quality_ecg_reject
    \/ quality_ecg_Level3
    \/ quality_ecg_pSQI
    \/ quality_ecg_kSQI
    \/ quality_ecg_fSQI
    \/ quality_ecg_cSQI
    \/ quality_ecg_hosSQI
    \/ quality_ecg_return
    \/ quality_eda_check
    \/ quality_eda_reject
    \/ quality_eda_bottcher
    \/ quality_eda_return
    \/ ecg_sqi_level3_check
    \/ ecg_sqi_level3_detect
    \/ ecg_sqi_level3_correct
    \/ ecg_sqi_level3_extract
    \/ eda_sqi_bottcher_run

Spec == Init /\ [][Next]_vars

-----------------------------------------------------------------------------
(* Claims about ecg_sqi_level3, checked under SpecLevel3 *)

\* the callees ecg_sqi_level3 has called so far, in order
Level3Callees ==
    LET mine == SelectSeq(calls, LAMBDA c : c[1] = "ecg_sqi_level3")
    IN  [i \in 1..Len(mine) |-> mine[i][2]]

IsPrefix(s, t) == Len(s) <= Len(t) /\ SubSeq(t, 1, Len(s)) = s

\* bit is nonzero and max(segment) - min(segment) >= 2**bit - 1
SegmentSaturated ==
    /\ bit # 0
    /\ ~IsNone(segment)
    /\ Len(Val(segment)) > 0
    /\ \E i, j \in 1..Len(Val(segment)) :
         Val(segment)[i] - Val(segment)[j] >= Pow2(bit) - 1

\* the segment holds at least 5 seconds of samples
SegmentSufficient ==
    /\ ~IsNone(segment)
    /\ ~IsNone(sampling_rate)
    /\ Len(Val(segment)) >= 5 * Val(sampling_rate)

\* every instantaneous heart rate sampling_rate*60/rr_i of rpeak1 lies in
\* [40, 200]
AllRatesInRange ==
    \A i \in 1..(Len(rpeak1) - 1) :
        LET rr == rpeak1[i + 1] - rpeak1[i]
        IN  /\ rr > 0
            /\ 40 * rr <= Val(sampling_rate) * 60
            /\ Val(sampling_rate) * 60 <= 200 * rr

\* the mean template correlation is strictly greater than threshold
CorrExceedsThreshold ==
    /\ corr.kind = "fin"
    /\ corr.num * threshold.den > threshold.num * corr.den

\* C4: with bit nonzero and max(segment) - min(segment) >= 2**bit - 1,
\* ecg_sqi_level3 returns exactly 0.0 whatever the segment's length and the
\* sampling rate (absent included), and calls neither the peak detector, the
\* peak corrector nor the template extractor.
C4_SaturationShortCircuit ==
    (SegmentSaturated /\ pc # "l3_check") =>
        /\ pc = "done"
        /\ outcome = Returned(LQ)
        /\ calls = <<>>

\* C4 witness: a saturated segment shorter than 5 s, or with no sampling
\* rate, has been scored 0.0.
C4_Witness ==
    /\ SegmentSaturated
    /\ pc = "done"
    /\ outcome = Returned(LQ)
    /\ \/ IsNone(sampling_rate)
       \/ Len(Val(segment)) < 5 * Val(sampling_rate)

C10_CheckOrder ==
    /\ IsPrefix(Level3Callees,
                <<"hamilton_segmenter", "correct_rpeaks", "extract_heartbeats">>)
    /\ Level3Callees # <<>> => ~SegmentSaturated
    /\ Len(Level3Callees) = 3 => (Len(rpeak1) >= 2 /\ AllRatesInRange)
    /\ (pc = "done" /\ outcome = Returned(Fin(0, 1))) => Len(Level3Callees) < 3

\* C10 witness: all three collaborators have been called, in order, and
\* the call has returned 0.5.
C10_Witness ==
    /\ pc = "done"
    /\ Level3Callees = <<"hamilton_segmenter", "correct_rpeaks", "extract_heartbeats">>
    /\ outcome = Returned(Fin(1, 2))

-----------------------------------------------------------------------------
(* Claims about eda_sqi_bottcher, checked under SpecBottcher *)

\* the segment is n >= 1 whole 2-second windows
WholeWindows ==
    /\ ~IsNone(segment)
    /\ ~IsNone(sampling_rate)
    /\ Len(Val(segment)) >= 2 * Val(sampling_rate)
    /\ Len(Val(segment)) % (2 * Val(sampling_rate)) = 0

NumWindows == Len(Val(segment)) \div (2 * Val(sampling_rate))

\* the samples of window k
WindowSet(k) ==
    {Val(segment)[i] : i \in ((k - 1) * 2 * Val(sampling_rate) + 1)..(k * 2 * Val(sampling_rate))}

WindowMax(k) == CHOOSE m \in WindowSet(k) : \A v \in WindowSet(k) : v <= m
WindowMin(k) == CHOOSE m \in WindowSet(k) : \A v \in WindowSet(k) : m <= v
WindowSum(k) ==
    SeqSum(SubSeq(Val(segment), (k - 1) * 2 * Val(sampling_rate) + 1,
                  k * 2 * Val(sampling_rate)))

\* |max - min| / max < 0.2 and mean(window) > 0.05, for a nonzero max
\* (samples are in units of 0.01)
WindowQualifies(k) ==
    /\ IF WindowMax(k) > 0
       THEN 5 * Abs(WindowMax(k) - WindowMin(k)) < WindowMax(k)
       ELSE TRUE
    /\ WindowSum(k) > 5 * 2 * Val(sampling_rate)

QualifyingWindows == {k \in 1..NumWindows : WindowQualifies(k)}

\* C6: for a segment of n >= 1 whole 2-second windows with nonzero maxima
\* eda_sqi_bottcher returns k/n, k the number of windows with
\* |max - min| / max < 0.2 and mean > 0.05; the result lies in [0, 1], is 1
\* exactly when every window qualifies and 0 exactly when none does.
C6_BottcherFraction ==
    (pc = "done" /\ WholeWindows /\ \A k \in 1..NumWindows : WindowMax(k) # 0) =>
        /\ outcome.kind = "return"
        /\ outcome.val.kind = "fin"
        /\ outcome.val.num * NumWindows = Cardinality(QualifyingWindows) * outcome.val.den
        /\ 0 <= outcome.val.num /\ outcome.val.num <= outcome.val.den
        /\ outcome.val = Fin(1, 1) <=> QualifyingWindows = 1..NumWindows
        /\ outcome.val = Fin(0, 1) <=> QualifyingWindows = {}

\* C6 witness: two windows with nonzero maxima, the first with a negative
\* maximum, of which exactly the second qualifies; the result is 1/2.
C6_Witness ==
    /\ pc = "done"
    /\ WholeWindows
    /\ NumWindows = 2
    /\ WindowMax(1) < 0
    /\ QualifyingWindows = {2}
    /\ outcome = Returned(Fin(1, 2))

\* C7: when some 2-second window has a maximum of exactly 0,
\* eda_sqi_bottcher raises or returns NaN; it never returns a finite score.
C7_ZeroMaxPropagates ==
    (pc = "done" /\ WholeWindows /\ \E k \in 1..NumWindows : WindowMax(k) = 0) =>
        \/ outcome.kind = "raise"
        \/ (outcome.kind = "return" /\ outcome.val.kind = "nan")

-----------------------------------------------------------------------------
(* Claims about quality_ecg and quality_eda, checked under Spec *)

IsDispatcher == entry \in {"quality_ecg", "quality_eda"}

\* the allow-list of the dispatcher that was called
AllowList ==
    IF entry = "quality_ecg"
    THEN {"Level3", "pSQI", "kSQI", "fSQI", "cSQI", "hosSQI"}
    ELSE {"bottcher"}

HasUnknown == \E i \in 1..Len(methods) : methods[i] \notin AllowList

FirstUnknown ==
    CHOOSE i \in 1..Len(methods) :
        /\ methods[i] \notin AllowList
        /\ \A j \in 1..(i - 1) : methods[j] \in AllowList

\* the callees the dispatcher itself has called so far, in order
DispatcherCallees ==
    LET mine == SelectSeq(calls, LAMBDA c : c[1] = entry)
    IN  [i \in 1..Len(mine) |-> mine[i][2]]

\* what the dispatcher calls for one allowed method name
CalleesOf(m) ==
    CASE m = "Level3" -> <<"ecg_sqi_level3">>
      [] m = "cSQI" -> <<"hamilton_segmenter", "cSQI">>
      [] m = "bottcher" -> <<"eda_sqi_bottcher">>
      [] OTHER -> <<m>>

\* what the dispatcher calls for the first n method names
RECURSIVE CalleesUpTo(_)
CalleesUpTo(n) == IF n = 0 THEN <<>> ELSE CalleesUpTo(n - 1) \o CalleesOf(methods[n])

InputsPresent == ~IsNone(segment) /\ ~IsNone(sampling_rate)

\* the global preconditions of the dispatcher hold (quality_ecg has none)
PreconditionsHold ==
    entry = "quality_eda" =>
        (InputsPresent /\ Len(Val(segment)) > 2 * Val(sampling_rate))

\* C1: a call of quality_ecg or quality_eda that returns, returns one entry
\* per requested name, and the i-th name of the result is the i-th requested
\* name, duplicates included.
C1_RequestOrderPreserved ==
    (IsDispatcher /\ pc = "done" /\ outcome.kind = "return") =>
        /\ outcome.val.names = methods
        /\ Len(outcome.val.values) = Len(methods)

\* C1 witness: quality_ecg has returned for ['kSQI', 'Level3', 'kSQI'].
C1_Witness ==
    /\ entry = "quality_ecg"
    /\ pc = "done"
    /\ methods = <<"kSQI", "Level3", "kSQI">>
    /\ outcome.kind = "return"
    /\ outcome.val.names = <<"kSQI", "Level3", "kSQI">>

\* C2 as claimed: whenever the requested list holds a name outside the
\* allow-list (inputs present, preconditions met), the call fails with the
\* unknown-method error and nothing has been called before it, wherever the
\* unknown name sits.
C2_NothingCalledBeforeRejection ==
    (IsDispatcher /\ pc = "done" /\ HasUnknown /\ InputsPresent /\ PreconditionsHold) =>
        /\ outcome = Raised(ErrMethod)
        /\ calls = <<>>

\* C2 amended: a call whose list holds a name outside the allow-list never
\* returns a result set; when it fails with the unknown-method error, the
\* dispatcher has called exactly the algorithms of the names before the first
\* unknown name, in request order, and none for that name or a later one;
\* when the unknown name is first and the preconditions hold, the call fails
\* with the unknown-method error and nothing has been called.
C2_RejectionAtFirstUnknown ==
    /\ (IsDispatcher /\ HasUnknown) =>
          /\ outcome.kind # "return"
          /\ outcome = Raised(ErrMethod) =>
                DispatcherCallees = CalleesUpTo(FirstUnknown - 1)
          /\ (pc = "done" /\ FirstUnknown = 1 /\ PreconditionsHold) =>
                (outcome = Raised(ErrMethod) /\ calls = <<>>)
    /\ (IsDispatcher /\ outcome = Raised(ErrMethod)) => HasUnknown

\* C2 witness: quality_ecg has rejected the third name after calling the
\* algorithms of the first two.
C2_Witness ==
    /\ entry = "quality_ecg"
    /\ pc = "done"
    /\ methods = <<"kSQI", "pSQI", "notamethod">>
    /\ outcome = Raised(ErrMethod)
    /\ DispatcherCallees = <<"kSQI", "pSQI">>

\* C3, for a present segment, an absent sampling rate and a non-empty list
\* of methods that are not handed the sampling rate: the call fails with the
\* missing-input error before anything is called, and never returns a result
\* set.
C3_AbsentRateFailsFast ==
    (IsDispatcher /\ pc = "done" /\ Len(methods) > 0
        /\ (\A i \in 1..Len(methods) : methods[i] \in {"pSQI", "kSQI", "hosSQI"})
        /\ ~IsNone(segment) /\ IsNone(sampling_rate)) =>
        /\ outcome.kind = "raise"
        /\ outcome.err \in {ErrEdaSignal, ErrEdaRate, ErrRate}
        /\ calls = <<>>

\* the segment is shorter than 5 seconds
ShortSegment ==
    /\ InputsPresent
    /\ Len(Val(segment)) < 5 * Val(sampling_rate)

Level3Reached ==
    \E i \in 1..Len(calls) : calls[i] = <<"quality_ecg", "ecg_sqi_level3">>

C9_TwoSecondSegmentAccepted ==
    (entry = "quality_eda" /\ pc = "done" /\ InputsPresent
        /\ Len(Val(segment)) = 2 * Val(sampling_rate)
        /\ methods = <<"bottcher">>) =>
        /\ outcome.kind = "return"
        /\ Len(outcome.val.values) = 1

====
